---------------------------- MODULE Spec2Model ----------------------------
(* A state-machine model of vst_param_cascade: the MIDI CC sweep of          *)
(* VSTAutomation.run_midi_cc_automation (src/vst_automation.py), the note    *)
(* naming and file naming it uses, the plugin path helpers of the same file  *)
(* and VSTAutomationGUI (src/main.py) with the form of its two frames        *)
(* (src/gui_components.py).                                                  *)
EXTENDS Integers, Sequences, FiniteSets, TLC

VARIABLES
    \* ---- VSTAutomation and one call of run_midi_cc_automation ----
    plugin,        \* self.plugin: "none" (None) or "loaded"
    config,        \* AutomationConfig: [note_min, note_max]
    cc_mappings,   \* Dict[int, str] in insertion order: Seq of [cc_num, cc_label]
    cc_values,     \* List[int]
    pc,            \* position of the call: idle / render / save / returned / raised
    k,             \* number of jobs of the sweep whose save completed
    renders,       \* jobs handed to self.plugin(...), in call order, that returned audio
    written,       \* file names for which save_audio completed, in order
    out_dir,       \* whether config.output_dir exists
    out_files,     \* file names present in config.output_dir
    error,         \* the exception leaving the call: none / RuntimeError / OSError /
                   \* RenderError / SaveError (and ValueError, raised by
                   \* run_automation before the call)
    logged,        \* the set of logger lines emitted so far
    \* ---- midi_to_note_name applied to one input ----
    midi_number,
    note_name,
    \* ---- the platform and the file system the path helpers inspect ----
    os_name,       \* os.name: "nt", "posix" or another value
    home,          \* what os.path.expanduser("~") gives
    existing,      \* the system directories (absolute paths) that exist
    tree,          \* the browsed directory tree: directory path -> its listing
    default_dir,   \* last result of get_default_plugin_directory ("" before)
    found,         \* last query and result of find_vst_binary_in_bundle
    plugins,       \* last result of list_available_plugins
    \* ---- VSTAutomationGUI ----
    vst_path,        \* self.vst_path (a path, None while empty)
    configure_btn,   \* state of the Configure VST button
    run_btn,         \* state of the Run Automation button
    vst_automation,  \* self.vst_automation: [set, plugin_path]; its .plugin is `plugin`
    dialog,          \* whether the modal "VST Configuration" dialog is open
    message,         \* the last messagebox shown
    sample_rate_var, \* self.sample_rate: text of the selected radio button
    duration_var,    \* self.duration: text of the Duration entry
    note_min_var,    \* self.note_min: text of the From entry
    note_max_var,    \* self.note_max: text of the To entry
    cc_frame,        \* self.cc_frame.cc_mappings: rows [cc_num, label] of entry texts
    values_frame,    \* self.values_frame.values: rows of entry texts
    edits,           \* number of form edits made so far (exploration budget)
    runs             \* number of Run Automation clicks so far (exploration budget)

runVars  == <<plugin, config, cc_mappings, cc_values, pc, k, renders, written,
              out_dir, out_files, error, logged>>
noteVars == <<midi_number, note_name>>
envVars  == <<os_name, home, existing, tree>>
fsVars   == <<default_dir, found, plugins>>
btnVars  == <<vst_path, configure_btn, run_btn, vst_automation, dialog, message>>
formVars == <<sample_rate_var, duration_var, note_min_var, note_max_var,
              cc_frame, values_frame>>
guiVars  == <<btnVars, formVars, edits, runs>>
vars     == <<runVars, noteVars, envVars, fsVars, guiVars>>

-----------------------------------------------------------------------------
(* Bounds of the explored inputs.                                            *)
MaxSpan == 2      \* note_max - note_min is at most this
MaxMaps == 2      \* entries of cc_mappings
MaxVals == 2      \* entries of cc_values
MaxArch == 2      \* architecture directories inside the bundle
MaxFiles == 2     \* files in one architecture directory
MaxRows == 2      \* rows of the CC mapping frame
MaxValueRows == 3 \* rows of the CC values frame
MaxFailAt == 1    \* in the GUI, a failing job has at most this many jobs before it
MaxEdits == 2     \* form edits explored in one session of the GUI
MaxRuns == 2      \* Run Automation clicks explored in one session of the GUI

NoteMins == {11, 59}
CCNums   == {1, 12}
Labels   == {"mod", "2"}
CCVals   == {0, 127}

-----------------------------------------------------------------------------
(* str(int): decimal digits, a leading "-" for negatives.                    *)
Digit(d) ==
    CASE d = 0 -> "0" [] d = 1 -> "1" [] d = 2 -> "2" [] d = 3 -> "3"
      [] d = 4 -> "4" [] d = 5 -> "5" [] d = 6 -> "6" [] d = 7 -> "7"
      [] d = 8 -> "8" [] d = 9 -> "9"

RECURSIVE NatToStr(_)
NatToStr(n) ==
    IF n < 10 THEN Digit(n) ELSE NatToStr(n \div 10) \o Digit(n % 10)

IntToStr(n) == IF n < 0 THEN "-" \o NatToStr(-n) ELSE NatToStr(n)

notes == <<"C", "C#", "D", "D#", "E", "F", "F#", "G", "G#", "A", "A#", "B">>

(* A slip of the octave convention: middle C named C5.                       *)
midi_to_note_name_NoOffset(n) ==
    notes[(n % 12) + 1] \o IntToStr(n \div 12)

(* midi_to_note_name: notes[n % 12] followed by (n // 12) - 1.               *)
midi_to_note_name(n) ==
    notes[(n % 12) + 1] \o IntToStr((n \div 12) - 1)

(* A file name that leaves the CC number out.                                *)
Filename_NoCC(job) ==
    midi_to_note_name(job.note) \o "_cc" \o "_" \o job.cc_label
        \o "_" \o IntToStr(job.cc_val) \o ".wav"

(* f"{note_name}_cc{cc_num}_{cc_label}_{cc_val}.wav"                         *)
Filename(job) ==
    midi_to_note_name(job.note) \o "_cc" \o IntToStr(job.cc_num) \o "_"
        \o job.cc_label \o "_" \o IntToStr(job.cc_val) \o ".wav"

-----------------------------------------------------------------------------
(* File names are sequences of characters, paths sequences of names          *)
(* (os.path.join appends a name, os.path.basename is the last name).         *)
UpperAZ == <<"A", "B", "C", "D", "E", "F", "G", "H", "I", "J", "K", "L", "M",
             "N", "O", "P", "Q", "R", "S", "T", "U", "V", "W", "X", "Y", "Z">>
LowerAZ == <<"a", "b", "c", "d", "e", "f", "g", "h", "i", "j", "k", "l", "m",
             "n", "o", "p", "q", "r", "s", "t", "u", "v", "w", "x", "y", "z">>

LowerChar(c) ==
    IF \E i \in 1..Len(UpperAZ) : UpperAZ[i] = c
    THEN LowerAZ[CHOOSE i \in 1..Len(UpperAZ) : UpperAZ[i] = c]
    ELSE c

\* str.lower()
Lower(s) == [i \in 1..Len(s) |-> LowerChar(s[i])]

\* str.endswith(suffix)
EndsWith(s, suf) ==
    /\ Len(suf) <= Len(s)
    /\ SubSeq(s, Len(s) - Len(suf) + 1, Len(s)) = suf

\* str.endswith(tuple of suffixes)
EndsWithAny(s, sufs) == \E i \in 1..Len(sufs) : EndsWith(s, sufs[i])

\* str.replace(old, new): every occurrence, left to right
RECURSIVE ReplaceFrom(_, _, _, _)
ReplaceFrom(s, i, old, new) ==
    IF i > Len(s) THEN <<>>
    ELSE IF i + Len(old) - 1 <= Len(s) /\ SubSeq(s, i, i + Len(old) - 1) = old
         THEN new \o ReplaceFrom(s, i + Len(old), old, new)
         ELSE <<s[i]>> \o ReplaceFrom(s, i + 1, old, new)

Replace(s, old, new) == ReplaceFrom(s, 1, old, new)

\* os.path.splitext(...)[1] of a name: from the last dot on, unless only
\* dots stand before it
Ext(name) ==
    LET dots == {i \in 1..Len(name) : name[i] = "."}
        d    == IF dots = {} THEN 0 ELSE CHOOSE i \in dots : \A j \in dots : j <= i
    IN  IF d > 0 /\ \E i \in 1..(d - 1) : name[i] # "."
        THEN SubSeq(name, d, Len(name))
        ELSE <<>>

Basename(p) == p[Len(p)]
Parent(p)   == SubSeq(p, 1, Len(p) - 1)

dot_so        == <<".", "s", "o">>
dot_vst3      == <<".", "v", "s", "t", "3">>
dot_dll       == <<".", "d", "l", "l">>
dot_component == <<".", "c", "o", "m", "p", "o", "n", "e", "n", "t">>
dot_au        == <<".", "a", "u">>
dot_txt       == <<".", "t", "x", "t">>

n_Contents     == <<"C", "o", "n", "t", "e", "n", "t", "s">>
n_x86_64       == <<"x", "8", "6", "_", "6", "4">>
n_x86_64_linux == n_x86_64 \o <<"-", "l", "i", "n", "u", "x">>
n_x86_64_win   == n_x86_64 \o <<"-", "w", "i", "n">>
n_MacOS        == <<"M", "a", "c", "O", "S">>

\* the names of the explored tree
n_vst3dir   == <<"v", "s", "t", "3">>
n_P_vst3    == <<"P">> \o dot_vst3
n_P_so      == <<"P">> \o dot_so
n_Q_so      == <<"Q">> \o dot_so
n_R_so      == <<"R">> \o dot_so
n_R_dll     == <<"R">> \o dot_dll
n_notes_txt == <<"n", "o", "t", "e", "s">> \o dot_txt

Root     == <<n_vst3dir>>
Bundle   == <<n_vst3dir, n_P_vst3>>
Contents == <<n_vst3dir, n_P_vst3, n_Contents>>

None == <<>>

\* os.path.isdir, os.path.exists, os.path.isfile on the tree
IsDir(p) == p \in DOMAIN tree

Exists(p) ==
    \/ IsDir(p)
    \/ /\ Len(p) > 1
       /\ IsDir(Parent(p))
       /\ \E i \in 1..Len(tree[Parent(p)]) : tree[Parent(p)][i] = Basename(p)

IsFile(p) == Exists(p) /\ ~IsDir(p)

\* system directories are absolute path strings
LibraryDir   == "/Library"
MacVst3Dir   == "/Library/Audio/Plug-Ins/VST3"
WinVst3Dir   == "C:/Program Files/Common Files/VST3"
UsrLibVst3   == "/usr/lib/vst3"
UsrLocalVst3 == "/usr/local/lib/vst3"

\* os.path.expanduser("~/.vst3")
UserVst3 == home \o "/.vst3"

-----------------------------------------------------------------------------
(* find_vst_binary_in_bundle                                                 *)
binary_exts == {dot_so, dot_vst3, dot_dll, dot_component, dot_au}
linux_dirs  == <<n_x86_64_linux, n_x86_64>>
linux_exts  == <<dot_so, dot_vst3>>

\* for ext in ['.so', '.vst3']: the file named after the bundle, if it exists
RECURSIVE NamedLoop(_, _, _)
NamedLoop(base_path, path, i) ==
    IF i > Len(linux_exts) THEN None
    ELSE LET plugin_name == Replace(Basename(path), dot_vst3, linux_exts[i])
             full_path   == Append(base_path, plugin_name)
         IN  IF Exists(full_path) THEN full_path
             ELSE NamedLoop(base_path, path, i + 1)

\* for ext in ['.so', '.vst3']: the first listed file ending in ext
RECURSIVE AnyLoop(_, _)
AnyLoop(base_path, i) ==
    IF i > Len(linux_exts) THEN None
    ELSE LET files == SelectSeq(tree[base_path],
                                LAMBDA f : EndsWith(f, linux_exts[i]))
         IN  IF files # <<>> THEN Append(base_path, files[1])
             ELSE AnyLoop(base_path, i + 1)

\* for linux_dir in ['x86_64-linux', 'x86_64']
RECURSIVE LinuxDirLoop(_, _)
LinuxDirLoop(path, d) ==
    IF d > Len(linux_dirs) THEN None
    ELSE LET base_path == path \o <<n_Contents, linux_dirs[d]>>
         IN  IF Exists(base_path)
             THEN LET named == NamedLoop(base_path, path, 1)
                  IN  IF named # None THEN named
                      ELSE LET any == AnyLoop(base_path, 1)
                           IN  IF any # None THEN any
                               ELSE LinuxDirLoop(path, d + 1)
             ELSE LinuxDirLoop(path, d + 1)

find_vst_binary_in_bundle(path) ==
    IF IsFile(path)
    THEN IF Ext(Lower(Basename(path))) \in binary_exts THEN path ELSE None
    ELSE IF EndsWith(Lower(Basename(path)), dot_vst3) /\ IsDir(path)
         THEN IF os_name = "nt" THEN None            \* binary_path is never used
              ELSE IF os_name = "posix"
                   THEN IF LibraryDir \in existing
                        THEN None                    \* binary_path is never used
                        ELSE LinuxDirLoop(path, 1)
                   ELSE None
         ELSE None

-----------------------------------------------------------------------------
(* get_default_plugin_directory                                              *)
linux_vst_dirs == <<UsrLibVst3, UsrLocalVst3, UserVst3>>

RECURSIVE FirstExisting(_, _)
FirstExisting(dirs, i) ==
    IF i > Len(dirs) THEN ""
    ELSE IF dirs[i] \in existing THEN dirs[i] ELSE FirstExisting(dirs, i + 1)

\* the fall-back spelled as the root directory
get_default_plugin_directory_Root ==
    IF os_name = "nt" THEN WinVst3Dir
    ELSE IF os_name = "posix"
         THEN IF MacVst3Dir \in existing THEN MacVst3Dir
              ELSE IF FirstExisting(linux_vst_dirs, 1) # ""
                   THEN FirstExisting(linux_vst_dirs, 1)
                   ELSE "/"
         ELSE "/"

get_default_plugin_directory ==
    IF os_name = "nt" THEN WinVst3Dir
    ELSE IF os_name = "posix"
         THEN IF MacVst3Dir \in existing THEN MacVst3Dir
              ELSE IF FirstExisting(linux_vst_dirs, 1) # ""
                   THEN FirstExisting(linux_vst_dirs, 1)
                   ELSE linux_vst_dirs[1]
         ELSE "/"

-----------------------------------------------------------------------------
(* list_available_plugins (the second definition, which is the one in force) *)
vst_extensions == <<dot_vst3, dot_component, dot_au, dot_so>>

\* os.walk(directory), top down: the directories visited, in order
RECURSIVE Walk(_)
RECURSIVE WalkSubdirs(_, _)
Walk(dirpath) == <<dirpath>> \o WalkSubdirs(dirpath, 1)
WalkSubdirs(dirpath, i) ==
    IF i > Len(tree[dirpath]) THEN <<>>
    ELSE (IF IsDir(Append(dirpath, tree[dirpath][i]))
          THEN Walk(Append(dirpath, tree[dirpath][i]))
          ELSE <<>>) \o WalkSubdirs(dirpath, i + 1)

\* the `files` of one os.walk step: the entries that are not directories
WalkFiles(dirpath) ==
    SelectSeq(tree[dirpath], LAMBDA f : ~IsDir(Append(dirpath, f)))

\* for file in files
RECURSIVE FileLoop(_, _, _)
FileLoop(root, files, i) ==
    IF i > Len(files) THEN <<>>
    ELSE LET full_path == Append(root, files[i])
             here ==
                 IF EndsWithAny(Lower(files[i]), vst_extensions)
                 THEN IF IsDir(full_path)
                         /\ EndsWith(Lower(Basename(full_path)), dot_vst3)
                      THEN IF find_vst_binary_in_bundle(full_path) # None
                           THEN <<find_vst_binary_in_bundle(full_path)>>
                           ELSE <<>>
                      ELSE <<full_path>>
                 ELSE <<>>
         IN  here \o FileLoop(root, files, i + 1)

\* for root, _, files in os.walk(directory)
RECURSIVE WalkLoop(_, _)
WalkLoop(walk, j) ==
    IF j > Len(walk) THEN <<>>
    ELSE FileLoop(walk[j], WalkFiles(walk[j]), 1) \o WalkLoop(walk, j + 1)

list_available_plugins(directory) ==
    IF IsDir(directory) THEN WalkLoop(Walk(directory), 1) ELSE <<>>

-----------------------------------------------------------------------------
(* The three nested loops of run_midi_cc_automation, as the sequence of jobs *)
(* they visit.                                                               *)
RECURSIVE ValueLoop(_, _, _, _)
ValueLoop(note, m, vals, i) ==
    IF i > Len(vals) THEN <<>>
    ELSE <<[note |-> note, cc_num |-> m.cc_num, cc_label |-> m.cc_label,
            cc_val |-> vals[i]]>> \o ValueLoop(note, m, vals, i + 1)

RECURSIVE MappingLoop(_, _, _, _)
MappingLoop(note, maps, vals, j) ==
    IF j > Len(maps) THEN <<>>
    ELSE ValueLoop(note, maps[j], vals, 1) \o MappingLoop(note, maps, vals, j + 1)

(* range(note_min, note_max) instead of range(note_min, note_max + 1).       *)
RECURSIVE NoteLoop_Exclusive(_, _, _, _)
NoteLoop_Exclusive(note, note_max, maps, vals) ==
    IF note >= note_max THEN <<>>
    ELSE MappingLoop(note, maps, vals, 1)
             \o NoteLoop_Exclusive(note + 1, note_max, maps, vals)

RECURSIVE NoteLoop(_, _, _, _)
NoteLoop(note, note_max, maps, vals) ==
    IF note > note_max THEN <<>>
    ELSE MappingLoop(note, maps, vals, 1) \o NoteLoop(note + 1, note_max, maps, vals)

SweepJobs(cfg, maps, vals) == NoteLoop(cfg.note_min, cfg.note_max, maps, vals)

jobs == SweepJobs(config, cc_mappings, cc_values)

-----------------------------------------------------------------------------
(* The texts of the form's entries, as sequences of characters, and the      *)
(* conversions run_automation, get_mappings and get_values apply to them.    *)
t_44100 == <<"4", "4", "1", "0", "0">>
t_48000 == <<"4", "8", "0", "0", "0">>
t_0_5   == <<"0", ".", "5">>
t_42    == <<"4", "2">>
t_78    == <<"7", "8">>
t_sixty == <<"s", "i", "x", "t", "y">>
t_0     == <<"0">>
t_100   == <<"1", "0", "0">>
t_1     == <<"1">>
t_01    == <<"0", "1">>
t_x     == <<"x">>

IsDigitChar(c) == \E d \in 0..9 : Digit(d) = c

DigitValue(c) == CHOOSE d \in 0..9 : Digit(d) = c

\* str.isdigit: not empty and decimal digits only
isdigit(s) == Len(s) > 0 /\ \A i \in 1..Len(s) : IsDigitChar(s[i])

RECURSIVE StrToNat(_)
StrToNat(s) ==
    IF s = <<>> THEN 0
    ELSE 10 * StrToNat(SubSeq(s, 1, Len(s) - 1)) + DigitValue(s[Len(s)])

\* whether int(s) returns (otherwise it raises ValueError): digits with an
\* optional sign (blanks and underscores do not occur in the explored texts)
IntOk(s) ==
    \/ isdigit(s)
    \/ Len(s) > 1 /\ s[1] \in {"+", "-"} /\ isdigit(Tail(s))

int(s) ==
    IF s[1] = "-" THEN 0 - StrToNat(Tail(s))
    ELSE IF s[1] = "+" THEN StrToNat(Tail(s))
    ELSE StrToNat(s)

\* whether float(s) returns: digits around at most one point, at least one
\* digit, an optional sign (exponents, inf and nan do not occur in the
\* explored texts)
FloatOk(s) ==
    LET body == IF Len(s) > 0 /\ s[1] \in {"+", "-"} THEN Tail(s) ELSE s
        points == {i \in 1..Len(body) : body[i] = "."}
    IN  /\ Cardinality(points) <= 1
        /\ \E i \in 1..Len(body) : IsDigitChar(body[i])
        /\ \A i \in 1..Len(body) : i \in points \/ IsDigitChar(body[i])

\* d[key] = val on a dict kept as a sequence in insertion order: a key already
\* present keeps its place and takes the new value
DictSet(d, key, val) ==
    IF \E i \in 1..Len(d) : d[i].cc_num = key
    THEN [i \in 1..Len(d) |->
             IF d[i].cc_num = key THEN [cc_num |-> key, cc_label |-> val] ELSE d[i]]
    ELSE Append(d, [cc_num |-> key, cc_label |-> val])

RECURSIVE MappingRows(_, _, _)
MappingRows(rows, i, d) ==
    IF i > Len(rows) THEN d
    ELSE MappingRows(rows, i + 1,
                     IF isdigit(rows[i].cc_num)
                     THEN DictSet(d, int(rows[i].cc_num), rows[i].label)
                     ELSE d)

\* CCMappingFrame.get_mappings: the rows whose CC# text is a number, as a dict
get_mappings(rows) == MappingRows(rows, 1, <<>>)

RECURSIVE ValueRows(_, _)
ValueRows(rows, i) ==
    IF i > Len(rows) THEN <<>>
    ELSE (IF isdigit(rows[i]) THEN <<int(rows[i])>> ELSE <<>>) \o ValueRows(rows, i + 1)

\* CCValuesFrame.get_values: the rows whose text is a number
get_values(rows) == ValueRows(rows, 1)

-----------------------------------------------------------------------------
(* Inputs of a run.                                                          *)
SeqsUpTo(S, n) == UNION {[1..m -> S] : m \in 0..n}

Configs ==
    {[note_min |-> lo, note_max |-> hi] :
        lo \in NoteMins, hi \in {h \in 0..127 : \E lo2 \in NoteMins :
                                    h \in (lo2 - 1)..(lo2 + MaxSpan)}}

\* a dict: no CC number twice
Mappings ==
    {m \in SeqsUpTo([cc_num : CCNums, cc_label : Labels], MaxMaps) :
        \A i, j \in 1..Len(m) : m[i].cc_num = m[j].cc_num => i = j}

ValueLists == SeqsUpTo(CCVals, MaxVals)

NoteIdle == midi_number = 0 /\ note_name = ""

RunInit ==
    /\ plugin = "none"
    /\ config \in {c \in Configs : c.note_max \in (c.note_min - 1)..(c.note_min + MaxSpan)}
    /\ cc_mappings \in Mappings
    /\ cc_values \in ValueLists
    /\ pc = "idle"
    /\ k = 0
    /\ renders = <<>>
    /\ written = <<>>
    /\ out_dir \in BOOLEAN
    /\ out_files = {}
    /\ error = "none"
    /\ logged = {}

-----------------------------------------------------------------------------
(* VSTAutomation.load_plugin: the host library loads self.plugin_path.       *)
LoadPluginOk ==
    /\ pc = "idle"
    /\ plugin' = "loaded"
    /\ logged' = logged \cup {"info: loaded"}
    /\ UNCHANGED <<config, cc_mappings, cc_values, pc, k, renders, written,
                   out_dir, out_files, error>>
    /\ UNCHANGED <<noteVars, envVars, fsVars, guiVars>>

(* load_plugin when the host library raises: logged, re-raised, self.plugin  *)
(* left as it was.                                                           *)
LoadPluginFail ==
    /\ pc = "idle"
    /\ logged' = logged \cup {"error: load"}
    /\ UNCHANGED <<plugin, config, cc_mappings, cc_values, pc, k, renders, written,
                   out_dir, out_files, error>>
    /\ UNCHANGED <<noteVars, envVars, fsVars, guiVars>>

(* The guard of run_midi_cc_automation, with the directory made first.       *)
RunNotLoaded_MkdirFirst ==
    /\ pc = "idle"
    /\ plugin = "none"
    /\ pc' = "raised"
    /\ error' = "RuntimeError"
    /\ out_dir' = TRUE
    /\ UNCHANGED <<plugin, config, cc_mappings, cc_values, k, renders, written,
                   out_files, logged>>
    /\ UNCHANGED <<noteVars, envVars, fsVars, guiVars>>

(* run_midi_cc_automation on an object without a plugin: RuntimeError before *)
(* anything else happens.                                                    *)
RunNotLoaded ==
    /\ pc = "idle"
    /\ plugin = "none"
    /\ pc' = "raised"
    /\ error' = "RuntimeError"
    /\ UNCHANGED <<plugin, config, cc_mappings, cc_values, k, renders, written,
                   out_dir, out_files, logged>>
    /\ UNCHANGED <<noteVars, envVars, fsVars, guiVars>>

(* The start of a run that forgets os.makedirs.                              *)
RunStart_NoMkdir ==
    /\ pc = "idle"
    /\ plugin = "loaded"
    /\ pc' = "render"
    /\ UNCHANGED <<plugin, config, cc_mappings, cc_values, k, renders, written,
                   out_dir, out_files, error, logged>>
    /\ UNCHANGED <<noteVars, envVars, fsVars, guiVars>>

(* run_midi_cc_automation with a plugin: os.makedirs(output_dir,             *)
(* exist_ok=True), then the loops are entered.                               *)
RunStart ==
    /\ pc = "idle"
    /\ plugin = "loaded"
    /\ out_dir' = TRUE
    /\ pc' = "render"
    /\ UNCHANGED <<plugin, config, cc_mappings, cc_values, k, renders, written,
                   out_files, error, logged>>
    /\ UNCHANGED <<noteVars, envVars, fsVars, guiVars>>

(* os.makedirs raising (it stands before the try): the error leaves the call *)
(* unlogged and nothing was rendered.                                        *)
RunMkdirFail ==
    /\ pc = "idle"
    /\ plugin = "loaded"
    /\ ~out_dir
    /\ pc' = "raised"
    /\ error' = "OSError"
    /\ UNCHANGED <<plugin, config, cc_mappings, cc_values, k, renders, written,
                   out_dir, out_files, logged>>
    /\ UNCHANGED <<noteVars, envVars, fsVars, guiVars>>

(* self.plugin(messages, ...) for the next job returns audio.                *)
Render ==
    /\ pc = "render"
    /\ k < Len(jobs)
    /\ renders' = Append(renders, jobs[k + 1])
    /\ pc' = "save"
    /\ UNCHANGED <<plugin, config, cc_mappings, cc_values, k, written,
                   out_dir, out_files, error, logged>>
    /\ UNCHANGED <<noteVars, envVars, fsVars, guiVars>>

(* self.plugin(...) raises: the except clause logs and re-raises.            *)
RenderFail ==
    /\ pc = "render"
    /\ k < Len(jobs)
    /\ pc' = "raised"
    /\ error' = "RenderError"
    /\ logged' = logged \cup {"error: automation"}
    /\ UNCHANGED <<plugin, config, cc_mappings, cc_values, k, renders, written,
                   out_dir, out_files>>
    /\ UNCHANGED <<noteVars, envVars, fsVars, guiVars>>

(* save_audio writes the file of the job just rendered (an existing file of  *)
(* that name is overwritten).                                                *)
Save ==
    /\ pc = "save"
    /\ written' = Append(written, Filename(jobs[k + 1]))
    /\ out_files' = out_files \cup {Filename(jobs[k + 1])}
    /\ k' = k + 1
    /\ pc' = "render"
    /\ UNCHANGED <<plugin, config, cc_mappings, cc_values, renders,
                   out_dir, error, logged>>
    /\ UNCHANGED <<noteVars, envVars, fsVars, guiVars>>

(* save_audio raises: logged and re-raised there, logged and re-raised again *)
(* by run_midi_cc_automation. Nothing removes the file: when AudioFile had   *)
(* opened it before the failure (f.write raising), the file of the failing   *)
(* job is left in the directory; when opening it failed, it is not.          *)
SaveFail(left) ==
    /\ pc = "save"
    /\ pc' = "raised"
    /\ error' = "SaveError"
    /\ out_files' = IF left THEN out_files \cup {Filename(jobs[k + 1])} ELSE out_files
    /\ logged' = logged \cup {"error: save", "error: automation"}
    /\ UNCHANGED <<plugin, config, cc_mappings, cc_values, k, renders, written,
                   out_dir>>
    /\ UNCHANGED <<noteVars, envVars, fsVars, guiVars>>

(* The loops are exhausted: the success line is logged and the call returns. *)
RunComplete ==
    /\ pc = "render"
    /\ k = Len(jobs)
    /\ pc' = "returned"
    /\ logged' = logged \cup {"info: completed"}
    /\ UNCHANGED <<plugin, config, cc_mappings, cc_values, k, renders, written,
                   out_dir, out_files, error>>
    /\ UNCHANGED <<noteVars, envVars, fsVars, guiVars>>

RunNext ==
    \/ LoadPluginOk
    \/ LoadPluginFail
    \/ RunNotLoaded
    \/ RunStart
    \/ RunMkdirFail
    \/ Render
    \/ RenderFail
    \/ Save
    \/ \E left \in BOOLEAN : SaveFail(left)
    \/ RunComplete

-----------------------------------------------------------------------------
(* The explored platforms and trees: a directory "vst3" holding the bundle   *)
(* "P.vst3" (a directory, a single file, or missing) and some plain files;   *)
(* inside the bundle, Contents/<architecture>/<files> in listing order.      *)
ArchOrder  == <<n_MacOS, n_x86_64, n_x86_64_linux, n_x86_64_win>>
ArchNames  == {ArchOrder[i] : i \in 1..Len(ArchOrder)}
InnerNames == {n_P_so, n_Q_so, n_P_vst3, n_notes_txt}
RootFiles  == {<<>>, <<n_R_dll>>, <<n_notes_txt, n_R_so>>}

\* listings of at most n files, no name twice
Listings(n) ==
    {l \in SeqsUpTo(InnerNames, n) :
        \A i, j \in 1..Len(l) : l[i] = l[j] => i = j}

\* at most a architecture directories, each with a listing
ArchChoices(a, n) ==
    UNION {[A -> Listings(n)] :
             A \in {S \in SUBSET ArchNames : Cardinality(S) <= a}}

MkTree(kind, rootFiles, sel) ==
    LET A    == DOMAIN sel
        dirs == {Root} \cup
                (IF kind = "dir"
                 THEN {Bundle} \cup
                      (IF A = {} THEN {}
                       ELSE {Contents} \cup {Append(Contents, a) : a \in A})
                 ELSE {})
    IN  [p \in dirs |->
            IF p = Root
            THEN (IF kind = "absent" THEN <<>> ELSE <<n_P_vst3>>) \o rootFiles
            ELSE IF p = Bundle
                 THEN (IF A = {} THEN <<>> ELSE <<n_Contents>>)
                 ELSE IF p = Contents
                      THEN SelectSeq(ArchOrder, LAMBDA a : a \in A)
                      ELSE sel[Basename(p)]]

Trees(a, n) ==
    {MkTree("dir", rf, sel) : rf \in RootFiles, sel \in ArchChoices(a, n)}
      \cup {MkTree(kd, rf, <<>>) : kd \in {"file", "absent"}, rf \in RootFiles}

QueryPaths ==
    {Bundle, Append(Root, n_R_so), Append(Root, n_R_dll),
     Append(Root, n_notes_txt), Append(Bundle, n_Contents)}

SystemDirs == {LibraryDir, MacVst3Dir, WinVst3Dir, UsrLibVst3, UsrLocalVst3, UserVst3}

\* a directory exists only inside an existing parent
ExistingSets ==
    {E \in SUBSET SystemDirs : MacVst3Dir \in E => LibraryDir \in E}

FsIdle ==
    /\ default_dir = ""
    /\ found = [called |-> FALSE, path |-> None, result |-> None]
    /\ plugins = [called |-> FALSE, result |-> <<>>]

RunIdle ==
    /\ plugin = "none"
    /\ config = [note_min |-> 60, note_max |-> 61]
    /\ cc_mappings = <<>>
    /\ cc_values = <<>>
    /\ pc = "idle"
    /\ k = 0
    /\ renders = <<>>
    /\ written = <<>>
    /\ out_dir = FALSE
    /\ out_files = {}
    /\ error = "none"
    /\ logged = {}

GuiIdle ==
    /\ vst_path = None
    /\ configure_btn = "disabled"
    /\ run_btn = "disabled"
    /\ vst_automation = [set |-> FALSE, plugin_path |-> None]
    /\ dialog = FALSE
    /\ message = "none"
    /\ sample_rate_var = t_44100
    /\ duration_var = t_0_5
    /\ note_min_var = t_42
    /\ note_max_var = t_78
    /\ cc_frame = <<>>
    /\ values_frame = <<t_0, t_100>>
    /\ edits = 0
    /\ runs = 0

EnvIdle ==
    /\ os_name = "posix"
    /\ home = "/home/user"
    /\ existing = {}
    /\ tree = MkTree("absent", <<>>, <<>>)

-----------------------------------------------------------------------------
(* The helpers applied to the platform and tree of the state.                *)
FindBinary(path) ==
    /\ found' = [called |-> TRUE, path |-> path,
                 result |-> find_vst_binary_in_bundle(path)]
    /\ UNCHANGED <<default_dir, plugins>>
    /\ UNCHANGED <<runVars, noteVars, envVars, guiVars>>

ListPlugins ==
    /\ plugins' = [called |-> TRUE, result |-> list_available_plugins(Root)]
    /\ UNCHANGED <<default_dir, found>>
    /\ UNCHANGED <<runVars, noteVars, envVars, guiVars>>

GetDefaultDir ==
    /\ default_dir' = get_default_plugin_directory
    /\ UNCHANGED <<found, plugins>>
    /\ UNCHANGED <<runVars, noteVars, envVars, guiVars>>

NoteName ==
    /\ note_name = ""
    /\ note_name' = midi_to_note_name(midi_number)
    /\ UNCHANGED midi_number
    /\ UNCHANGED <<runVars, envVars, fsVars, guiVars>>

-----------------------------------------------------------------------------
(* VSTAutomationGUI: the handlers of the buttons and the edits of the form.  *)
(* Tk runs one handler at a time, and the configuration dialog holds the     *)
(* grab, so the main window is out of reach while it is open. In the GUI the *)
(* variables config, cc_mappings, cc_values hold the arguments of the latest *)
(* call of run_midi_cc_automation (before the first one, what the form as    *)
(* built would give), and k, renders, written, error what the latest click   *)
(* on Run Automation did.                                                    *)

\* the paths the file dialog can hand back: the bundle and the plain files
Selectable ==
    {p \in {Bundle, Append(Root, n_R_so), Append(Root, n_notes_txt)} : Exists(p)}

\* os.makedirs(initial_dir, exist_ok=True)
MakeDirs(dir) == IF dir \in SystemDirs THEN existing \cup {dir} ELSE existing

\* the texts typed into the entries, and the radio buttons explored
Rates         == {t_44100, t_48000}
DurationTexts == {t_0_5, t_x}
NoteTexts     == {t_42, t_78, t_sixty}
CCTexts       == {t_1, t_01, t_x}
ValueTexts    == {t_0, t_100, t_x}
TypedPaths    == {Append(Root, n_notes_txt)}

(* browse_vst with a file picked: the default directory is created, the     *)
(* path is resolved through find_vst_binary_in_bundle, stored, and Configure *)
(* VST is enabled.                                                           *)
BrowseSelect(filepath) ==
    /\ ~dialog
    /\ existing' = MakeDirs(get_default_plugin_directory)
    /\ LET binary_path == find_vst_binary_in_bundle(filepath)
       IN  vst_path' = IF binary_path # None THEN binary_path ELSE filepath
    /\ configure_btn' = "normal"
    /\ UNCHANGED <<run_btn, vst_automation, dialog, message>>
    /\ UNCHANGED <<formVars, edits, runs>>
    /\ UNCHANGED <<os_name, home, tree>>
    /\ UNCHANGED <<runVars, noteVars, fsVars>>

(* browse_vst with the dialog cancelled: only the directory is created.      *)
BrowseCancel ==
    /\ ~dialog
    /\ existing' = MakeDirs(get_default_plugin_directory)
    /\ UNCHANGED guiVars
    /\ UNCHANGED <<os_name, home, tree>>
    /\ UNCHANGED <<runVars, noteVars, fsVars>>

(* A path typed into the entry bound to self.vst_path.                       *)
TypeVstPath(path) ==
    /\ ~dialog
    /\ edits < MaxEdits
    /\ path # vst_path
    /\ edits' = edits + 1
    /\ vst_path' = path
    /\ UNCHANGED <<configure_btn, run_btn, vst_automation, dialog, message>>
    /\ UNCHANGED <<formVars, runs>>
    /\ UNCHANGED <<runVars, noteVars, envVars, fsVars>>

(* A radio button of the Sample Rate frame selected.                         *)
SelectRate(rate) ==
    /\ ~dialog
    /\ edits < MaxEdits
    /\ rate # sample_rate_var
    /\ edits' = edits + 1
    /\ sample_rate_var' = rate
    /\ UNCHANGED <<duration_var, note_min_var, note_max_var, cc_frame, values_frame>>
    /\ UNCHANGED <<btnVars, runs>>
    /\ UNCHANGED <<runVars, noteVars, envVars, fsVars>>

(* A text typed into the Duration entry.                                     *)
TypeDuration(text) ==
    /\ ~dialog
    /\ edits < MaxEdits
    /\ text # duration_var
    /\ edits' = edits + 1
    /\ duration_var' = text
    /\ UNCHANGED <<sample_rate_var, note_min_var, note_max_var, cc_frame, values_frame>>
    /\ UNCHANGED <<btnVars, runs>>
    /\ UNCHANGED <<runVars, noteVars, envVars, fsVars>>

(* A text typed into the From entry of the MIDI Note Range.                  *)
TypeNoteMin(text) ==
    /\ ~dialog
    /\ edits < MaxEdits
    /\ text # note_min_var
    /\ edits' = edits + 1
    /\ note_min_var' = text
    /\ UNCHANGED <<sample_rate_var, duration_var, note_max_var, cc_frame, values_frame>>
    /\ UNCHANGED <<btnVars, runs>>
    /\ UNCHANGED <<runVars, noteVars, envVars, fsVars>>

(* A text typed into the To entry of the MIDI Note Range.                    *)
TypeNoteMax(text) ==
    /\ ~dialog
    /\ edits < MaxEdits
    /\ text # note_max_var
    /\ edits' = edits + 1
    /\ note_max_var' = text
    /\ UNCHANGED <<sample_rate_var, duration_var, note_min_var, cc_frame, values_frame>>
    /\ UNCHANGED <<btnVars, runs>>
    /\ UNCHANGED <<runVars, noteVars, envVars, fsVars>>

(* CCMappingFrame.add_cc_mapping: a row with two empty entries is appended.  *)
add_cc_mapping ==
    /\ ~dialog
    /\ edits < MaxEdits
    /\ Len(cc_frame) < MaxRows
    /\ edits' = edits + 1
    /\ cc_frame' = Append(cc_frame, [cc_num |-> <<>>, label |-> ""])
    /\ UNCHANGED <<sample_rate_var, duration_var, note_min_var, note_max_var,
                   values_frame>>
    /\ UNCHANGED <<btnVars, runs>>
    /\ UNCHANGED <<runVars, noteVars, envVars, fsVars>>

\* a list without its i-th element
RemoveAt(sq, i) == SubSeq(sq, 1, i - 1) \o SubSeq(sq, i + 1, Len(sq))

(* CCMappingFrame.remove_mapping: the row of the clicked button is dropped.  *)
remove_mapping(i) ==
    /\ ~dialog
    /\ edits < MaxEdits
    /\ i \in 1..Len(cc_frame)
    /\ edits' = edits + 1
    /\ cc_frame' = RemoveAt(cc_frame, i)
    /\ UNCHANGED <<sample_rate_var, duration_var, note_min_var, note_max_var,
                   values_frame>>
    /\ UNCHANGED <<btnVars, runs>>
    /\ UNCHANGED <<runVars, noteVars, envVars, fsVars>>

(* A text typed into the CC# entry of a mapping row.                         *)
TypeCCNum(i, text) ==
    /\ ~dialog
    /\ edits < MaxEdits
    /\ i \in 1..Len(cc_frame)
    /\ edits' = edits + 1
    /\ text # cc_frame[i].cc_num
    /\ cc_frame' = [cc_frame EXCEPT ![i].cc_num = text]
    /\ UNCHANGED <<sample_rate_var, duration_var, note_min_var, note_max_var,
                   values_frame>>
    /\ UNCHANGED <<btnVars, runs>>
    /\ UNCHANGED <<runVars, noteVars, envVars, fsVars>>

(* A text typed into the Label entry of a mapping row.                       *)
TypeLabel(i, text) ==
    /\ ~dialog
    /\ edits < MaxEdits
    /\ i \in 1..Len(cc_frame)
    /\ edits' = edits + 1
    /\ text # cc_frame[i].label
    /\ cc_frame' = [cc_frame EXCEPT ![i].label = text]
    /\ UNCHANGED <<sample_rate_var, duration_var, note_min_var, note_max_var,
                   values_frame>>
    /\ UNCHANGED <<btnVars, runs>>
    /\ UNCHANGED <<runVars, noteVars, envVars, fsVars>>

(* CCValuesFrame.add_value through the Add Value button: a row holding "0".  *)
add_value ==
    /\ ~dialog
    /\ edits < MaxEdits
    /\ Len(values_frame) < MaxValueRows
    /\ edits' = edits + 1
    /\ values_frame' = Append(values_frame, t_0)
    /\ UNCHANGED <<sample_rate_var, duration_var, note_min_var, note_max_var,
                   cc_frame>>
    /\ UNCHANGED <<btnVars, runs>>
    /\ UNCHANGED <<runVars, noteVars, envVars, fsVars>>

(* CCValuesFrame.remove_value: the row of the clicked button is dropped.     *)
remove_value(i) ==
    /\ ~dialog
    /\ edits < MaxEdits
    /\ i \in 1..Len(values_frame)
    /\ edits' = edits + 1
    /\ values_frame' = RemoveAt(values_frame, i)
    /\ UNCHANGED <<sample_rate_var, duration_var, note_min_var, note_max_var,
                   cc_frame>>
    /\ UNCHANGED <<btnVars, runs>>
    /\ UNCHANGED <<runVars, noteVars, envVars, fsVars>>

(* A text typed into the entry of a value row.                               *)
TypeValue(i, text) ==
    /\ ~dialog
    /\ edits < MaxEdits
    /\ i \in 1..Len(values_frame)
    /\ edits' = edits + 1
    /\ text # values_frame[i]
    /\ values_frame' = [values_frame EXCEPT ![i] = text]
    /\ UNCHANGED <<sample_rate_var, duration_var, note_min_var, note_max_var,
                   cc_frame>>
    /\ UNCHANGED <<btnVars, runs>>
    /\ UNCHANGED <<runVars, noteVars, envVars, fsVars>>

(* configure_vst, plugin loaded and editor shown: a new VSTAutomation holds  *)
(* the plugin and the dialog with the Done button opens.                     *)
ConfigureOk ==
    /\ ~dialog
    /\ configure_btn = "normal"
    /\ vst_automation' = [set |-> TRUE, plugin_path |-> vst_path]
    /\ plugin' = "loaded"
    /\ logged' = logged \cup {"info: loaded"}
    /\ dialog' = TRUE
    /\ UNCHANGED <<vst_path, configure_btn, run_btn, message>>
    /\ UNCHANGED <<formVars, edits, runs>>
    /\ UNCHANGED <<config, cc_mappings, cc_values, pc, k, renders, written,
                   out_dir, out_files, error>>
    /\ UNCHANGED <<noteVars, envVars, fsVars>>

(* configure_vst, load_plugin raising: self.vst_automation is already the    *)
(* new object, whose plugin is None; the error is shown.                     *)
ConfigureLoadFail ==
    /\ ~dialog
    /\ configure_btn = "normal"
    /\ vst_automation' = [set |-> TRUE, plugin_path |-> vst_path]
    /\ plugin' = "none"
    /\ logged' = logged \cup {"error: load", "error: gui load"}
    /\ message' = "Failed to load VST"
    /\ UNCHANGED <<vst_path, configure_btn, run_btn, dialog>>
    /\ UNCHANGED <<formVars, edits, runs>>
    /\ UNCHANGED <<config, cc_mappings, cc_values, pc, k, renders, written,
                   out_dir, out_files, error>>
    /\ UNCHANGED <<noteVars, envVars, fsVars>>

(* configure_vst, show_editor raising after a successful load.               *)
ConfigureEditorFail ==
    /\ ~dialog
    /\ configure_btn = "normal"
    /\ vst_automation' = [set |-> TRUE, plugin_path |-> vst_path]
    /\ plugin' = "loaded"
    /\ logged' = logged \cup {"info: loaded", "error: gui load"}
    /\ message' = "Failed to load VST"
    /\ UNCHANGED <<vst_path, configure_btn, run_btn, dialog>>
    /\ UNCHANGED <<formVars, edits, runs>>
    /\ UNCHANGED <<config, cc_mappings, cc_values, pc, k, renders, written,
                   out_dir, out_files, error>>
    /\ UNCHANGED <<noteVars, envVars, fsVars>>

(* finish_config: the Done button destroys the dialog and enables Run.       *)
FinishConfig ==
    /\ dialog
    /\ dialog' = FALSE
    /\ run_btn' = "normal"
    /\ UNCHANGED <<vst_path, configure_btn, vst_automation, message>>
    /\ UNCHANGED <<formVars, edits, runs>>
    /\ UNCHANGED <<runVars, noteVars, envVars, fsVars>>

(* The dialog closed through the window manager: no handler runs.            *)
CloseDialog ==
    /\ dialog
    /\ dialog' = FALSE
    /\ UNCHANGED <<vst_path, configure_btn, run_btn, vst_automation, message>>
    /\ UNCHANGED <<formVars, edits, runs>>
    /\ UNCHANGED <<runVars, noteVars, envVars, fsVars>>

\* whether run_automation gets past building the AutomationConfig
FormOk ==
    /\ IntOk(sample_rate_var)
    /\ FloatOk(duration_var)
    /\ IntOk(note_min_var)
    /\ IntOk(note_max_var)

\* the arguments run_automation passes to run_midi_cc_automation
FormConfig   == [note_min |-> int(note_min_var), note_max |-> int(note_max_var)]
FormMappings == get_mappings(cc_frame)
FormValues   == get_values(values_frame)
FormJobs     == SweepJobs(FormConfig, FormMappings, FormValues)

\* file names of the first n jobs
FirstFiles(js, n) == [i \in 1..n |-> Filename(js[i])]

\* a click on Run Automation that reaches run_midi_cc_automation
GuiCall ==
    /\ ~dialog
    /\ run_btn = "normal"
    /\ runs < MaxRuns
    /\ vst_automation.set
    /\ FormOk
    /\ runs' = runs + 1
    /\ config' = FormConfig
    /\ cc_mappings' = FormMappings
    /\ cc_values' = FormValues
    /\ UNCHANGED <<plugin, pc>>
    /\ UNCHANGED <<vst_path, configure_btn, run_btn, vst_automation, dialog>>
    /\ UNCHANGED <<formVars, edits>>
    /\ UNCHANGED <<noteVars, envVars, fsVars>>

(* run_automation, the whole sweep inside the handler, running through.      *)
GuiRun ==
    /\ GuiCall
    /\ plugin = "loaded"
    /\ out_dir' = TRUE
    /\ k' = Len(FormJobs)
    /\ renders' = FormJobs
    /\ written' = FirstFiles(FormJobs, Len(FormJobs))
    /\ out_files' = out_files \cup {Filename(FormJobs[i]) : i \in 1..Len(FormJobs)}
    /\ error' = "none"
    /\ logged' = logged \cup {"info: completed"}
    /\ message' = "Automation completed"

(* run_automation, the sweep stopping at the render or the save of the job   *)
(* after the first n (a failed save leaving the file or not): the error is   *)
(* caught and shown.                                                         *)
GuiRunFail(n, stage, left) ==
    /\ GuiCall
    /\ plugin = "loaded"
    /\ n < Len(FormJobs)
    /\ left => stage = "save"
    /\ out_dir' = TRUE
    /\ k' = n
    /\ renders' = SubSeq(FormJobs, 1, IF stage = "save" THEN n + 1 ELSE n)
    /\ written' = FirstFiles(FormJobs, n)
    /\ out_files' = out_files \cup {Filename(FormJobs[i]) : i \in 1..n}
                        \cup (IF left THEN {Filename(FormJobs[n + 1])} ELSE {})
    /\ error' = IF stage = "save" THEN "SaveError" ELSE "RenderError"
    /\ logged' = logged \cup
                 (IF stage = "save"
                  THEN {"error: save", "error: automation", "error: gui run"}
                  ELSE {"error: automation", "error: gui run"})
    /\ message' = "Automation failed"

(* run_automation with os.makedirs raising in run_midi_cc_automation (it     *)
(* stands before the try there): caught and shown, nothing rendered.         *)
GuiRunMkdirFail ==
    /\ GuiCall
    /\ plugin = "loaded"
    /\ ~out_dir
    /\ k' = 0
    /\ renders' = <<>>
    /\ written' = <<>>
    /\ error' = "OSError"
    /\ logged' = logged \cup {"error: gui run"}
    /\ message' = "Automation failed"
    /\ UNCHANGED <<out_dir, out_files>>

(* run_automation on an object whose plugin is None: the RuntimeError of     *)
(* run_midi_cc_automation is caught and shown.                               *)
GuiRunNotLoaded ==
    /\ GuiCall
    /\ plugin = "none"
    /\ k' = 0
    /\ renders' = <<>>
    /\ written' = <<>>
    /\ error' = "RuntimeError"
    /\ logged' = logged \cup {"error: gui run"}
    /\ message' = "Automation failed"
    /\ UNCHANGED <<out_dir, out_files>>

(* run_automation with a text of the form that is no number: int() or        *)
(* float() raises ValueError before run_midi_cc_automation is called.        *)
GuiRunValueError ==
    /\ ~dialog
    /\ run_btn = "normal"
    /\ runs < MaxRuns
    /\ vst_automation.set
    /\ ~FormOk
    /\ runs' = runs + 1
    /\ k' = 0
    /\ renders' = <<>>
    /\ written' = <<>>
    /\ error' = "ValueError"
    /\ logged' = logged \cup {"error: gui run"}
    /\ message' = "Automation failed"
    /\ UNCHANGED <<plugin, config, cc_mappings, cc_values, pc, out_dir, out_files>>
    /\ UNCHANGED <<vst_path, configure_btn, run_btn, vst_automation, dialog>>
    /\ UNCHANGED <<formVars, edits>>
    /\ UNCHANGED <<noteVars, envVars, fsVars>>

GuiNext ==
    \/ \E filepath \in Selectable : BrowseSelect(filepath)
    \/ BrowseCancel
    \/ \E path \in TypedPaths : TypeVstPath(path)
    \/ \E rate \in Rates : SelectRate(rate)
    \/ \E text \in DurationTexts : TypeDuration(text)
    \/ \E text \in NoteTexts : TypeNoteMin(text)
    \/ \E text \in NoteTexts : TypeNoteMax(text)
    \/ add_cc_mapping
    \/ \E i \in 1..MaxRows : remove_mapping(i)
    \/ \E i \in 1..MaxRows, text \in CCTexts : TypeCCNum(i, text)
    \/ \E i \in 1..MaxRows, text \in Labels : TypeLabel(i, text)
    \/ add_value
    \/ \E i \in 1..MaxValueRows : remove_value(i)
    \/ \E i \in 1..MaxValueRows, text \in ValueTexts : TypeValue(i, text)
    \/ ConfigureOk
    \/ ConfigureLoadFail
    \/ ConfigureEditorFail
    \/ FinishConfig
    \/ CloseDialog
    \/ GuiRun
    \/ \E n \in 0..MaxFailAt, stage \in {"render", "save"}, left \in BOOLEAN :
          GuiRunFail(n, stage, left)
    \/ GuiRunMkdirFail
    \/ GuiRunNotLoaded
    \/ GuiRunValueError

-----------------------------------------------------------------------------
(* Specifications.                                                           *)

\* one VSTAutomation object, loaded or not, and one sweep on every input
InitRun == RunInit /\ NoteIdle /\ EnvIdle /\ FsIdle /\ GuiIdle

SpecRun == InitRun /\ [][RunNext]_vars

\* midi_to_note_name on every MIDI note
InitNote ==
    /\ midi_number \in 0..127
    /\ note_name = ""
    /\ RunIdle /\ EnvIdle /\ FsIdle /\ GuiIdle

SpecNote == InitNote /\ [][NoteName]_vars

\* get_default_plugin_directory on every platform and set of directories
InitDir ==
    /\ os_name \in {"nt", "posix", "java"}
    /\ home \in {"/home/user", "/root"}
    /\ existing \in ExistingSets
    /\ tree = MkTree("absent", <<>>, <<>>)
    /\ RunIdle /\ NoteIdle /\ FsIdle /\ GuiIdle

SpecDir == InitDir /\ [][GetDefaultDir]_vars

\* the bundle resolver and the scanner on every platform and tree
InitFs ==
    /\ os_name \in {"nt", "posix", "java"}
    /\ home = "/home/user"
    /\ existing \in {E \in {{}, {LibraryDir}} : os_name = "posix" \/ E = {}}
    /\ tree \in Trees(MaxArch, MaxFiles)
    /\ RunIdle /\ NoteIdle /\ FsIdle /\ GuiIdle

FsNext ==
    \/ \E path \in QueryPaths : FindBinary(path)
    \/ ListPlugins

SpecFs == InitFs /\ [][FsNext]_vars

\* the GUI from start-up, on two platforms, with a bundle and a plain file to
\* browse
GuiTree == MkTree("dir", <<n_R_so>>, [a \in {n_x86_64_linux} |-> <<n_P_so>>])

InitGui ==
    /\ os_name \in {"nt", "posix"}
    /\ home = "/home/user"
    /\ existing = {}
    /\ tree = GuiTree
    /\ plugin = "none"
    /\ config = [note_min |-> 42, note_max |-> 78]
    /\ cc_mappings = <<>>
    /\ cc_values = <<0, 100>>
    /\ pc = "idle"
    /\ k = 0
    /\ renders = <<>>
    /\ written = <<>>
    /\ out_dir = FALSE
    /\ out_files = {}
    /\ error = "none"
    /\ logged = {}
    /\ NoteIdle /\ FsIdle /\ GuiIdle

SpecGui == InitGui /\ [][GuiNext]_vars

-----------------------------------------------------------------------------
(* Properties of the sweep (under SpecRun).                                  *)

\* the i-th job of the sweep by position: notes outermost, then the mapping
\* entries in insertion order, then the CC values in list order
ExpectedJob(i) ==
    LET M == Len(cc_mappings)
        V == Len(cc_values)
        z == i - 1
        m == cc_mappings[((z \div V) % M) + 1]
    IN  [note     |-> config.note_min + (z \div (M * V)),
         cc_num   |-> m.cc_num,
         cc_label |-> m.cc_label,
         cc_val   |-> cc_values[(z % V) + 1]]

ExpectedCount ==
    (config.note_max - config.note_min + 1) * Len(cc_mappings) * Len(cc_values)

\* C1: with note_min <= note_max, a run on a loaded plugin that returns has
\* raised no error and issued exactly (note_max - note_min + 1) * |cc_mappings|
\* * |cc_values| renders, one file each, in the order notes ascending, mapping
\* entries in insertion order, CC values in list order; an empty cc_values
\* list gives no render and no file.
C1_SweepCountAndOrder ==
    (pc = "returned" /\ config.note_min <= config.note_max) =>
        /\ error = "none"
        /\ Len(renders) = ExpectedCount
        /\ Len(written) = ExpectedCount
        /\ \A i \in 1..Len(renders) : renders[i] = ExpectedJob(i)
        /\ \A i \in 1..Len(written) : written[i] = Filename(ExpectedJob(i))
        /\ cc_values = <<>> => (renders = <<>> /\ written = <<>> /\ out_files = {})

C1_Witness ==
    /\ pc = "returned"
    /\ config.note_max = config.note_min + 1
    /\ Len(cc_mappings) = 2
    /\ Len(cc_values) = 2
    /\ Len(renders) = 8

\* C2: when the render or the save of a job fails, the call ends there with
\* the error raised (and logged): the files written are exactly those of the
\* jobs before it, in sweep order, nothing of them is removed, the renders are
\* those jobs' (plus the failing job's own when it was its save that failed),
\* and nothing more happens.
C2_AbortOnFailure ==
    (pc = "raised" /\ error \in {"RenderError", "SaveError"}) =>
        /\ k < Len(jobs)
        /\ written = [i \in 1..k |-> Filename(jobs[i])]
        /\ out_files = {Filename(jobs[i]) : i \in 1..k}
        /\ renders = SubSeq(jobs, 1, IF error = "SaveError" THEN k + 1 ELSE k)
        /\ "error: automation" \in logged
        /\ ~ENABLED RunNext

\* C3: a call on an object whose plugin was never loaded ends at once with the
\* not-loaded error and changes nothing: no render, no file, and the output
\* directory is left as it was.
C3_NotLoadedChangesNothing ==
    [][(pc = "idle" /\ plugin = "none" /\ pc' # "idle") =>
          /\ pc' = "raised"
          /\ error' = "RuntimeError"
          /\ UNCHANGED <<plugin, k, renders, written, out_dir, out_files>>]_vars

C3_Witness ==
    /\ pc = "raised"
    /\ error = "RuntimeError"
    /\ "error: load" \in logged
    /\ ~out_dir
    /\ Len(jobs) > 0
    /\ renders = <<>>

DuplicateFree(vals) == \A i, j \in 1..Len(vals) : vals[i] = vals[j] => i = j

\* C4: in a run that returned, two jobs were written to the same file name only
\* when they have the same note and CC number and their CC values are equal
\* (cc_values holds the value twice); with a duplicate-free cc_values the run
\* leaves as many distinct files as there were jobs.
C4_FilenamesDistinct ==
    pc = "returned" =>
        /\ \A i, j \in 1..Len(written) :
              (i # j /\ written[i] = written[j]) =>
                  /\ renders[i].note = renders[j].note
                  /\ renders[i].cc_num = renders[j].cc_num
                  /\ renders[i].cc_val = renders[j].cc_val
                  /\ ~DuplicateFree(cc_values)
        /\ DuplicateFree(cc_values) =>
              /\ Len(written) = Len(jobs)
              /\ Cardinality(out_files) = Len(jobs)

C4_Witness ==
    /\ pc = "returned"
    /\ DuplicateFree(cc_values)
    /\ Len(cc_mappings) = 2
    /\ cc_mappings[1].cc_label = cc_mappings[2].cc_label
    /\ Len(jobs) = 8
    /\ Cardinality(out_files) = 8

\* C10: renders and saves alternate: a render happens only with the output
\* directory in place, the i-th file written is the file of the i-th render,
\* which is the i-th job of the sweep, and the renders completed exceed the
\* files written by at most one.
C10_RenderSaveAlternate ==
    /\ renders # <<>> => out_dir
    /\ Len(renders) - Len(written) \in {0, 1}
    /\ pc = "save" => Len(renders) = Len(written) + 1
    /\ pc \in {"idle", "render", "returned"} => Len(renders) = Len(written)
    /\ renders = SubSeq(jobs, 1, Len(renders))
    /\ \A i \in 1..Len(written) : written[i] = Filename(renders[i])

C10_Witness ==
    /\ pc = "save"
    /\ Len(renders) = 3
    /\ Len(written) = 2

-----------------------------------------------------------------------------
(* Properties of midi_to_note_name (under SpecNote).                         *)
ChromaticNames ==
    <<"C", "C#", "D", "D#", "E", "F", "F#", "G", "G#", "A", "A#", "B">>

\* C7: every MIDI note n in 0..127 is named by the chromatic name at index
\* n mod 12 followed by the octave floor(n / 12) - 1; 60 is "C4", 69 is "A4",
\* 21 is "A0"; distinct notes get distinct names.
C7_NoteNames ==
    note_name # "" =>
        /\ note_name = ChromaticNames[(midi_number % 12) + 1]
                           \o ToString((midi_number \div 12) - 1)
        /\ midi_number = 60 => note_name = "C4"
        /\ midi_number = 69 => note_name = "A4"
        /\ midi_number = 21 => note_name = "A0"
        /\ \A n \in 0..127 :
              n # midi_number => midi_to_note_name(n) # note_name

C7_Witness == midi_number = 60 /\ note_name = "C4"

-----------------------------------------------------------------------------
(* Properties of get_default_plugin_directory (under SpecDir).               *)

\* the platform's candidate directories, in the order they are tried
Candidates ==
    IF os_name = "nt" THEN <<WinVst3Dir>>
    ELSE IF os_name = "posix"
         THEN <<MacVst3Dir, UsrLibVst3, UsrLocalVst3, UserVst3>>
         ELSE <<>>

ExistingCandidates == {i \in 1..Len(Candidates) : Candidates[i] \in existing}

FirstExistingCandidate ==
    Candidates[CHOOSE i \in ExistingCandidates : \A j \in ExistingCandidates : i <= j]

\* C9 as stated: the first existing candidate, and "/" when none exists.
C9_Original ==
    default_dir # "" =>
        default_dir = IF ExistingCandidates # {} THEN FirstExistingCandidate ELSE "/"

\* C9 as amended: the first existing candidate; when none exists, the fixed
\* directory of the platform: C:/Program Files/Common Files/VST3 on Windows,
\* /usr/lib/vst3 (the first Linux candidate) on posix, and "/" only on a
\* platform that is neither.
C9_DefaultDirectory ==
    default_dir # "" =>
        default_dir =
            IF ExistingCandidates # {} THEN FirstExistingCandidate
            ELSE IF os_name = "nt" THEN WinVst3Dir
                 ELSE IF os_name = "posix" THEN UsrLibVst3
                      ELSE "/"

C9_Witness ==
    /\ os_name = "posix"
    /\ ExistingCandidates = {}
    /\ default_dir = "/usr/lib/vst3"

-----------------------------------------------------------------------------
(* Properties of the GUI (under SpecGui).                                    *)

\* C5: Run Automation is enabled only if the current VSTAutomation object
\* holds a loaded plugin.
C5_RunEnabledOnlyIfLoaded ==
    run_btn = "normal" => (vst_automation.set /\ plugin = "loaded")

-----------------------------------------------------------------------------
(* Properties of the bundle resolver and the scanner (under SpecFs).         *)

\* the bundle's internal directories of the platform, in the order searched
PlatformDirs ==
    IF os_name = "nt" THEN <<n_x86_64_win>>
    ELSE IF os_name = "posix"
         THEN IF LibraryDir \in existing THEN <<n_MacOS>>
              ELSE <<n_x86_64_linux, n_x86_64>>
         ELSE <<>>

Recognized(f) == Ext(Lower(f)) \in binary_exts

\* named after the bundle: its base name with a recognized extension
NamedAfterBundle(f) ==
    \E e \in binary_exts : f = SubSeq(n_P_vst3, 1, Len(n_P_vst3) - Len(dot_vst3)) \o e

BinariesIn(d) ==
    IF IsDir(Append(Contents, d))
    THEN {f \in InnerNames :
             /\ Recognized(f)
             /\ \E i \in 1..Len(tree[Append(Contents, d)]) :
                    tree[Append(Contents, d)][i] = f}
    ELSE {}

HoldingDirs == {i \in 1..Len(PlatformDirs) : BinariesIn(PlatformDirs[i]) # {}}

\* C6: for the bundle directory, on Windows, macOS and Linux, the resolver
\* returns nothing only when the platform's subdirectory holds no binary;
\* otherwise it returns a binary of that subdirectory, the one named after
\* the bundle if there is one.
C6_BundleResolved ==
    (found.called /\ found.path = Bundle /\ IsDir(Bundle) /\ Len(PlatformDirs) > 0) =>
        IF HoldingDirs = {} THEN found.result = None
        ELSE LET d == PlatformDirs[CHOOSE i \in HoldingDirs :
                                       \A j \in HoldingDirs : i <= j]
             IN  /\ found.result # None
                 /\ Parent(found.result) = Append(Contents, d)
                 /\ Basename(found.result) \in BinariesIn(d)
                 /\ (\E f \in BinariesIn(d) : NamedAfterBundle(f))
                        => NamedAfterBundle(Basename(found.result))

Under(p, dir) == Len(p) > Len(dir) /\ SubSeq(p, 1, Len(dir)) = dir

Range(sq) == {sq[i] : i \in 1..Len(sq)}

\* C8: the scanner returns, for the bundle directory, exactly the binary the
\* resolver finds for it (nothing when it finds none), and returns the plain
\* files with a plugin extension as they are.
C8_ScannerResolvesBundles ==
    plugins.called =>
        /\ IsDir(Bundle) =>
              {p \in Range(plugins.result) : Under(p, Bundle)}
                  = (IF find_vst_binary_in_bundle(Bundle) = None THEN {}
                     ELSE {find_vst_binary_in_bundle(Bundle)})
        /\ \A f \in Range(tree[Root]) :
              (IsFile(Append(Root, f)) /\ EndsWithAny(Lower(f), vst_extensions))
                  => Append(Root, f) \in Range(plugins.result)

=============================================================================
